---- MODULE Spec2Model ----
(***************************************************************************)
(* TFN Digital Check-In: the attendee store, the check-in resolver         *)
(* (CheckInModule.lookupAndCheckIn) with the camera scanner in front of    *)
(* it, the roster importer (UploadModule.processAndUpload with its file    *)
(* handlers), the selected-event context (EventsModule), and the page      *)
(* navigation and session handlers of app.js.                              *)
(*                                                                         *)
(* Every handler is an async JavaScript function: it runs atomically up to *)
(* its next await, and other handlers may run between an await and its     *)
(* continuation.  Each action below is one such atomic segment.            *)
(***************************************************************************)
EXTENDS Integers, Sequences, FiniteSets, TLC

\* ------------------------------------------------------------------ bounds
MaxLookups == 2     \* resolution attempts that may overlap
MaxRows    == 2     \* rows of a parsed roster
MaxFiles   == 2     \* file selections in one behaviour
MaxRuns    == 2     \* clicks on the process button in one behaviour
MaxPending == 1     \* timed-out adds whose write is still in flight
MaxDeletes == 2     \* clicks on a delete button in one behaviour
MaxStarts  == 2     \* clicks on the start-scanner button in one behaviour
MaxStops   == 1     \* stop() calls on one instance pending at once
MaxTimers  == 2     \* cooldown timeouts that may be pending at once
MaxCached  == 2     \* documents a dashboard query may return
MaxSignIns == 2     \* sign-ins (a restored session included) in a behaviour

\* --------------------------------------------------------------- the data
Events  == {"e1", "e2"}          \* ids of event documents
PRNs    == {"p1", "p2"}          \* roster identifiers
Lookups == 1..MaxLookups
Runs    == 1..MaxRuns
Files   == 1..MaxFiles
Deletes == 1..MaxDeletes
Starts  == 1..MaxStarts
Pages   == {"upload", "checkin", "dashboard", "events"}
Modules == {"UploadModule", "CheckInModule", "DashboardModule",
            "EventsModule"}

Null    == "null"                \* selectedEventId before any selection
Absent  == "absent"              \* a document field that was never written
NoDoc   == 0                     \* no document reference held
NoTime  == 0                     \* checkInTime: null

VARIABLES
  attendees,           \* the "attendees" collection: a set of documents
  nextDocId,           \* store-generated document ids
  clock,               \* the server clock behind serverTimestamp()
  selectedEventId,     \* EventsModule.selectedEventId
  events,              \* the "events" collection: a set of documents
  allEvents,           \* EventsModule.allEvents: the ids of the rendered cards
  evLoad,              \* the loadEvents call of init or of the navigation
  del,                 \* the handleDeleteEvent invocations
  resultState,         \* the result panel shown by showState
  lk,                  \* the lookupAndCheckIn invocations
  latest,              \* history: the invocation that started last
  html5QrCode,         \* CheckInModule.html5QrCode (0: null)
  isScanning,          \* CheckInModule.isScanning
  startScanBtnShown,   \* startScanBtn is displayed, stopScanBtn is not
  instances,           \* the Html5Qrcode instances and their cameras
  stops,               \* per instance, the stop() calls still awaited
  scanCooldown,        \* CheckInModule.scanCooldown
  lastScannedCode,     \* CheckInModule.lastScannedCode
  cooldownTimers,      \* the setTimeout callbacks of onScanSuccess pending
  scanned,             \* history: the last decode callback delivered
  activePage,          \* the page section that has the class "active"
  auth,                \* the session: signed in, signing out, signed out
  appInitialized,      \* appInitialized of app.js
  inits,               \* history: the calls of each module's init
  loginPageShown,      \* loginPage is displayed
  mainAppShown,        \* mainApp is displayed
  signIns,             \* history: auth listener calls that carried a user
  allAttendees,        \* DashboardModule.allAttendees: the cached list
  currentFilter,       \* DashboardModule.currentFilter
  searchInput,         \* searchInput.value, a text
  tableRows,           \* the rows renderTable has put into attendeesBody
  exported,            \* history: the last exportCSV call and its download
  dashLoad,            \* the loadDashboard call awaiting its query
  selectedFile,        \* UploadModule.selectedFile (TRUE: a file is shown)
  parsedData,          \* UploadModule.parsedData
  qrDataMap,           \* UploadModule.qrDataMap (the prns that have a QR)
  processBtnDisabled,  \* processBtn.disabled
  loads,               \* onFileReady completions that are still running
  run,                 \* the processAndUpload invocations
  pendingAdds,         \* adds that timed out at the caller, still in flight
  overlapped           \* history: two import runs were in progress at once

vars == <<attendees, nextDocId, clock, selectedEventId, events, allEvents,
          evLoad, del, resultState, lk, latest,
          html5QrCode, isScanning, startScanBtnShown, instances, stops,
          scanCooldown, lastScannedCode, cooldownTimers, scanned,
          activePage, auth, appInitialized, inits, loginPageShown,
          mainAppShown, signIns,
          allAttendees, currentFilter, searchInput, tableRows, exported,
          dashLoad,
          selectedFile, parsedData, qrDataMap, processBtnDisabled, loads,
          run, pendingAdds, overlapped>>

eventVars   == <<selectedEventId, events, allEvents, evLoad, del>>
checkinVars == <<resultState, lk, latest>>
scanVars    == <<html5QrCode, isScanning, startScanBtnShown, instances, stops,
                 scanCooldown, lastScannedCode, cooldownTimers, scanned>>
shellVars   == <<activePage, auth, appInitialized, inits, loginPageShown,
                 mainAppShown, signIns>>
dashVars    == <<allAttendees, currentFilter, searchInput, tableRows,
                 exported, dashLoad>>
uploadVars  == <<selectedFile, parsedData, qrDataMap, processBtnDisabled,
                 loads, run, pendingAdds, overlapped>>

\* A document of the attendees collection.  email, mobile, year and
\* createdAt are copied from the row as name is and never read by the logic
\* modelled here; importedUnder is history: the event selected when the
\* importer built the document ("seed" for documents that predate the
\* session).
Doc(id, eventId, name, prn, checkedIn, checkInTime, qr, under) ==
  [id |-> id, eventId |-> eventId, name |-> name, prn |-> prn,
   checkedIn |-> checkedIn, checkInTime |-> checkInTime, qrData |-> qr,
   importedUnder |-> under]

\* Documents the collection may hold when the page is loaded: written with
\* an eventId, not checked in, (eventId, prn) unique.
SeedDocs ==
  { Doc(1, "e1", "Asha", "p1", FALSE, NoTime, TRUE, "seed"),
    Doc(2, "e2", "Asha", "p1", FALSE, NoTime, TRUE, "seed") }

\* ------------------------------------------------- EventsModule (context)
\* getSelectedEventId(): the module variable, as it is.
getSelectedEventId == selectedEventId

\* selectEvent(eventId, eventName): a pure in-memory assignment.  The select
\* buttons are rendered from the events list, so eventId is an event id.
selectEvent(e) ==
  /\ selectedEventId' = e
  /\ UNCHANGED <<attendees, nextDocId, clock, checkinVars, scanVars,
                 shellVars, uploadVars, dashVars>>
  /\ UNCHANGED <<events, allEvents, evLoad, del>>

\* The event documents the collection holds when the page is loaded, e2
\* the more recently created.
SeedEvents ==
  { [id |-> "e1", createdAt |-> -1], [id |-> "e2", createdAt |-> 0] }

EventIds(evs) == {ev.id : ev \in evs}

\* eventsRef.orderBy("createdAt", "desc").get(), mapped to the ids.
NewestFirst(evs) ==
  LET n == Cardinality(evs)
      s == CHOOSE t \in [1..n -> evs] :
             \A j, k \in 1..n : j < k => t[j].createdAt > t[k].createdAt
  IN [j \in 1..n |-> s[j].id]

\* The cards renderEvents has drawn, each with its select and delete button.
Rendered == {allEvents[j] : j \in 1..Len(allEvents)}

\* A click on the select button of a rendered card.
SelectClick(e) == e \in Rendered /\ selectEvent(e)

\* loadEvents after its await: the list is replaced and rendered, and with
\* nothing selected the first event of the list is selected.
LoadEventsResolved(sel) ==
  /\ allEvents' = NewestFirst(events)
  /\ selectedEventId' = IF sel = Null /\ events # {}
                          THEN NewestFirst(events)[1] ELSE sel

\* The navigation to the Events page calls loadEvents.
LoadEventsStart ==
  /\ evLoad = "idle"
  /\ evLoad' = "loading"
  /\ UNCHANGED <<attendees, nextDocId, clock, selectedEventId, events,
                 allEvents, del, checkinVars, scanVars, shellVars, uploadVars,
                 dashVars>>

\* The get of a loadEvents call from init or the navigation resolves.
LoadEventsDone ==
  /\ evLoad = "loading"
  /\ evLoad' = "idle"
  /\ LoadEventsResolved(selectedEventId)
  /\ UNCHANGED <<attendees, nextDocId, clock, events, del, checkinVars,
                 scanVars, shellVars, uploadVars, dashVars>>

\* The get rejects: the catch block shows a toast.
LoadEventsFails ==
  /\ evLoad = "loading"
  /\ evLoad' = "idle"
  /\ UNCHANGED <<attendees, nextDocId, clock, selectedEventId, events,
                 allEvents, del, checkinVars, scanVars, shellVars, uploadVars,
                 dashVars>>

\* One invocation of handleDeleteEvent.  eventId is its argument, docs the
\* ids its attendee query returned; startDocs and wasSelected are history:
\* the attendees of the event when the invocation started, and whether the
\* invocation cleared the selection.
UnusedDelete ==
  [pc |-> "unused", eventId |-> Null, docs |-> {}, startDocs |-> {},
   wasSelected |-> FALSE]

AttendeesOf(e) == {d.id : d \in {x \in attendees : x.eventId = e}}

\* handleDeleteEvent, confirmed, up to the await of the attendee query.
DeleteClick(d, e) ==
  /\ e \in Rendered
  /\ del[d].pc = "unused"
  /\ \A c \in Deletes : c < d => del[c].pc # "unused"
  /\ del' = [del EXCEPT ![d] = [UnusedDelete EXCEPT !.pc = "query",
                                   !.eventId = e,
                                   !.startDocs = AttendeesOf(e)]]
  /\ UNCHANGED <<attendees, nextDocId, clock, selectedEventId, events,
                 allEvents, evLoad, checkinVars, scanVars, shellVars,
                 uploadVars, dashVars>>

\* The attendee query resolves: the batch is built and committed.
DeleteQueryDone(d) ==
  /\ del[d].pc = "query"
  /\ del' = [del EXCEPT ![d].pc = "batch",
                        ![d].docs = AttendeesOf(del[d].eventId)]
  /\ UNCHANGED <<attendees, nextDocId, clock, selectedEventId, events,
                 allEvents, evLoad, checkinVars, scanVars, shellVars,
                 uploadVars, dashVars>>

\* The catch block of handleDeleteEvent: a toast, nothing else.
DeleteCaught(d) ==
  /\ del' = [del EXCEPT ![d].pc = "failed", ![d].docs = {},
                        ![d].startDocs = {}]
  /\ UNCHANGED <<attendees, nextDocId, clock, selectedEventId, events,
                 allEvents, evLoad, checkinVars, scanVars, shellVars,
                 uploadVars, dashVars>>

\* The attendee query rejects.
DeleteQueryFails(d) == del[d].pc = "query" /\ DeleteCaught(d)

\* batch.commit() resolves: every document of the batch is deleted; the
\* delete of the event document is issued.
DeleteBatchDone(d) ==
  /\ del[d].pc = "batch"
  /\ attendees' = {x \in attendees : x.id \notin del[d].docs}
  /\ del' = [del EXCEPT ![d].pc = "event", ![d].docs = {}]
  /\ UNCHANGED <<nextDocId, clock, selectedEventId, events, allEvents, evLoad,
                 checkinVars, scanVars, shellVars, uploadVars, dashVars>>

\* batch.commit() rejects: a batch is atomic, nothing is deleted.
DeleteBatchFails(d) == del[d].pc = "batch" /\ DeleteCaught(d)

\* The delete of the event document resolves: the selection is cleared if
\* it was this event, and loadEvents is called.
DeleteEventDone(d) ==
  /\ del[d].pc = "event"
  /\ events' = {ev \in events : ev.id # del[d].eventId}
  /\ selectedEventId' = IF selectedEventId = del[d].eventId
                          THEN Null ELSE selectedEventId
  /\ del' = [del EXCEPT ![d].pc = "reload", ![d].startDocs = {},
                        ![d].wasSelected = (selectedEventId = del[d].eventId)]
  /\ UNCHANGED <<attendees, nextDocId, clock, allEvents, evLoad, checkinVars,
                 scanVars, shellVars, uploadVars, dashVars>>

\* The delete of the event document rejects, after the batch went through.
DeleteEventFails(d) == del[d].pc = "event" /\ DeleteCaught(d)

\* The loadEvents call at the end of handleDeleteEvent resolves.
DeleteReloadDone(d) ==
  /\ del[d].pc = "reload"
  /\ del' = [del EXCEPT ![d].pc = "done"]
  /\ LoadEventsResolved(selectedEventId)
  /\ UNCHANGED <<attendees, nextDocId, clock, events, evLoad, checkinVars,
                 scanVars, shellVars, uploadVars, dashVars>>

\* That loadEvents call fails: its own catch block shows a toast.
DeleteReloadFails(d) ==
  /\ del[d].pc = "reload"
  /\ del' = [del EXCEPT ![d].pc = "done"]
  /\ UNCHANGED <<attendees, nextDocId, clock, selectedEventId, events,
                 allEvents, evLoad, checkinVars, scanVars, shellVars,
                 uploadVars, dashVars>>

handleDeleteEvent ==
  \E d \in Deletes :
    \/ \E e \in Events : DeleteClick(d, e)
    \/ DeleteQueryDone(d)
    \/ DeleteQueryFails(d)
    \/ DeleteBatchDone(d)
    \/ DeleteBatchFails(d)
    \/ DeleteEventDone(d)
    \/ DeleteEventFails(d)
    \/ DeleteReloadDone(d)
    \/ DeleteReloadFails(d)

loadEvents == LoadEventsStart \/ LoadEventsDone \/ LoadEventsFails

\* --------------------------------------------- CheckInModule: the resolver
\* One invocation of lookupAndCheckIn.  prn and eventId are its argument and
\* local; docId is the document its query returned; seenTime is the
\* checkInTime it read (AlreadyCheckedIn) or the time its update was given
\* (Success).  result, reads, writes, wasChecked and raw are history: the
\* branch taken, the store reads and writes issued, whether the identifier's
\* document was already checked in when the invocation started, and the
\* decoded text of the scan that made the call ("manual" for the input box).
IdleLookup ==
  [pc |-> "idle", prn |-> "p1", eventId |-> Null, docId |-> NoDoc,
   seenTime |-> NoTime, result |-> "none", reads |-> 0, writes |-> 0,
   wasChecked |-> FALSE, raw |-> "manual"]

\* The guard left out: the lookup proceeds whatever the selection is.
NoEventGuardOmitted(eventId) == FALSE
\* `if (!eventId)`: the guard of lookupAndCheckIn.
NoEventSelected(eventId) == eventId = Null

\* attendeesRef.where("prn","==",prn).where("eventId","==",eventId): the
\* documents the lookup query matches; limit(1) returns any one of them.
LookupMatches(prn, eventId) ==
  {d \in attendees : d.prn = prn /\ d.eventId = eventId}

\* The test left out: every found document is treated as not checked in.
IsCheckedInIgnored(data) == FALSE
\* `if (data.checkedIn)`: the test that selects the already-checked-in path.
IsCheckedIn(data) == data.checkedIn

\* A set() in place of the update: the document is replaced by the two
\* fields, the others are gone.
CheckInSetReplaces(d, t) ==
  [d EXCEPT !.checkedIn = TRUE, !.checkInTime = t, !.eventId = Absent,
            !.name = Absent, !.prn = Absent, !.qrData = FALSE]
\* An update that writes the flag and leaves the timestamp for later.
CheckInUpdateFlagOnly(d, t) == [d EXCEPT !.checkedIn = TRUE]
\* doc.ref.update({checkedIn: true, checkInTime: serverTimestamp()}): both
\* fields are written by the one update.
CheckInUpdate(d, t) == [d EXCEPT !.checkedIn = TRUE, !.checkInTime = t]

\* lookupAndCheckIn(prn), up to its first await: showState("loading"), the
\* event guard, and the query being issued.  prn is trimmed and non-empty;
\* raw is what the caller was given.  The invocation takes the first record
\* that holds no invocation in progress.
LookupEnter(a, prn, raw) ==
  /\ lk[a].pc \in {"idle", "done"}
  /\ \A b \in Lookups : b < a => lk[b].pc \notin {"idle", "done"}
  /\ latest' = a
  /\ LET eventId == getSelectedEventId
         fresh   == [IdleLookup EXCEPT !.prn = prn, !.eventId = eventId,
                       !.raw = raw,
                       !.wasChecked = \E d \in attendees :
                          d.prn = prn /\ d.eventId = eventId /\ d.checkedIn]
     IN IF NoEventSelected(eventId)
          THEN /\ resultState' = "default"
               /\ lk' = [lk EXCEPT ![a] =
                           [fresh EXCEPT !.pc = "done", !.result = "noEvent"]]
          ELSE /\ resultState' = "loading"
               /\ lk' = [lk EXCEPT ![a] =
                           [fresh EXCEPT !.pc = "query", !.reads = 1]]

\* handleManualCheckIn with a non-empty input: lookupAndCheckIn(prn).
LookupStart(a, prn) ==
  /\ LookupEnter(a, prn, "manual")
  /\ UNCHANGED <<attendees, nextDocId, clock, eventVars, uploadVars, scanVars,
                 shellVars, dashVars>>

\* The lookup query rejects: the catch block shows the not-found panel.
LookupQueryFails(a) ==
  /\ lk[a].pc = "query"
  /\ resultState' = "notFound"
  /\ lk' = [lk EXCEPT ![a].pc = "done", ![a].result = "error"]
  /\ UNCHANGED <<attendees, nextDocId, clock, eventVars, uploadVars, latest,
                 scanVars, shellVars, dashVars>>

\* The lookup query resolves with no document.
LookupQueryEmpty(a) ==
  /\ lk[a].pc = "query"
  /\ LookupMatches(lk[a].prn, lk[a].eventId) = {}
  /\ resultState' = "notFound"
  /\ lk' = [lk EXCEPT ![a].pc = "done", ![a].result = "notFound"]
  /\ UNCHANGED <<attendees, nextDocId, clock, eventVars, uploadVars, latest,
                 scanVars, shellVars, dashVars>>

\* The lookup query resolves with a document: either the already-checked-in
\* path (no write), or the update is issued.
LookupQueryFound(a) ==
  /\ lk[a].pc = "query"
  /\ \E data \in LookupMatches(lk[a].prn, lk[a].eventId) :
       IF IsCheckedIn(data)
         THEN /\ resultState' = "already"
              /\ lk' = [lk EXCEPT ![a].pc = "done", ![a].result = "already",
                                  ![a].docId = data.id,
                                  ![a].seenTime = data.checkInTime]
         ELSE /\ resultState' = resultState
              /\ lk' = [lk EXCEPT ![a].pc = "update", ![a].docId = data.id,
                                  ![a].writes = 1]
  /\ UNCHANGED <<attendees, nextDocId, clock, eventVars, uploadVars, latest,
                 scanVars, shellVars, dashVars>>

\* The update resolves: the store has applied it with the server's time.
LookupUpdateDone(a) ==
  /\ lk[a].pc = "update"
  /\ \E d \in attendees :
       /\ d.id = lk[a].docId
       /\ attendees' = (attendees \ {d}) \cup {CheckInUpdate(d, clock)}
  /\ clock' = clock + 1
  /\ resultState' = "success"
  /\ lk' = [lk EXCEPT ![a].pc = "done", ![a].result = "success",
                      ![a].seenTime = clock]
  /\ UNCHANGED <<nextDocId, eventVars, uploadVars, latest, scanVars,
                 shellVars, dashVars>>

\* The update rejects: nothing is written, the catch block runs.
LookupUpdateFails(a) ==
  /\ lk[a].pc = "update"
  /\ resultState' = "notFound"
  /\ lk' = [lk EXCEPT ![a].pc = "done", ![a].result = "error"]
  /\ UNCHANGED <<attendees, nextDocId, clock, eventVars, uploadVars, latest,
                 scanVars, shellVars, dashVars>>

\* One invocation, segment by segment.
Lookup(a) ==
  \/ \E prn \in PRNs : LookupStart(a, prn)
  \/ LookupQueryFails(a)
  \/ LookupQueryEmpty(a)
  \/ LookupQueryFound(a)
  \/ LookupUpdateDone(a)
  \/ LookupUpdateFails(a)

\* The store's answers to the invocations in progress.
Resolve ==
  \E a \in Lookups :
    \/ LookupQueryFails(a)
    \/ LookupQueryEmpty(a)
    \/ LookupQueryFound(a)
    \/ LookupUpdateDone(a)
    \/ LookupUpdateFails(a)

\* Scans and manual entries start invocations that may overlap.
lookupAndCheckIn == \E a \in Lookups : Lookup(a)

\* ------------------------------------------------ UploadModule: the files
\* const REQUIRED_COLUMNS.
REQUIRED_COLUMNS == {"name", "prn", "email", "mobile", "year"}

\* A trim() that is left out.
TrimOmitted(s) == s
\* String.prototype.trim() on the cell and header texts that occur in the
\* files below: leading and trailing white space is removed.
trim(s) ==
  CASE s = " "      -> ""
    [] s = " Asha " -> "Asha"
    [] s = " p1 "   -> "p1"
    [] s = " PRN "  -> "PRN"
    [] OTHER        -> s

\* A toLowerCase() that is left out.
ToLowerCaseOmitted(s) == s
\* String.prototype.toLowerCase() on the header texts that occur below.
toLowerCase(s) ==
  CASE s = "Name"   -> "name"
    [] s = "PRN"    -> "prn"
    [] s = "EMAIL"  -> "email"
    [] s = "Email"  -> "email"
    [] s = "Year"   -> "year"
    [] OTHER        -> s

\* transformHeader: (h) => h.trim().toLowerCase().
transformHeader(h) == toLowerCase(trim(h))

\* The header lines a file may have.
HeaderLines ==
  { <<"name", "prn", "email", "mobile", "year">>,
    <<"Name", " PRN ", "EMAIL", "mobile", "Year">>,
    <<"name", "prn", "email">>,
    <<"Name", "Email", "Year">> }

\* The data lines a file may have: the name and prn cells as Papa.parse
\* yields them, untrimmed ("" for a cell that is empty).
RawRows ==
  { [name |-> "Asha", prn |-> "p1"], [name |-> "Asha", prn |-> "p2"],
    [name |-> " Asha ", prn |-> " p1 "],
    [name |-> "", prn |-> "p2"], [name |-> "Asha", prn |-> ""],
    [name |-> " ", prn |-> "p2"] }

\* The files the operator may choose.
RawFiles ==
  { [headers |-> h, rows |-> rs] :
      h \in HeaderLines, rs \in UNION {[1..n -> RawRows] : n \in 1..MaxRows} }

\* The rosters of well-formed files: every row has a name and a prn.
Rosters == UNION {[1..n -> {[name |-> "Asha", prn |-> p] : p \in PRNs}] :
                    n \in 1..MaxRows}

\* The well-formed files: the required header line and a roster.
RosterFiles ==
  { [headers |-> <<"name", "prn", "email", "mobile", "year">>, rows |-> rs] :
      rs \in Rosters }

\* results.meta.fields after transformHeader, mapped through toLowerCase.
Headers(file) ==
  {toLowerCase(transformHeader(file.headers[j])) : j \in 1..Len(file.headers)}

\* REQUIRED_COLUMNS.filter(col => !headers.includes(col)).
MissingColumns(file) == {col \in REQUIRED_COLUMNS : col \notin Headers(file)}

\* `row.name && row.prn`: both cells are non-empty strings.
HasNameAndPrn(row) == row.name # "" /\ row.prn # ""

\* results.data.filter(...).map(...): the rows kept, their cells trimmed.
CleanRows(file) ==
  LET kept == SelectSeq(file.rows, HasNameAndPrn)
  IN [j \in 1..Len(kept) |->
        [name |-> trim(kept[j].name), prn |-> trim(kept[j].prn)]]

\* A load: the file being parsed, then the rows its QR loop iterates over
\* and the loop's position.  missing is history: the columns named in the
\* toast of a load that was rejected.
UnusedLoad ==
  [pc |-> "unused", file |-> <<>>, rows |-> <<>>, k |-> 0, live |-> FALSE,
   missing |-> {}]

\* `qrDataMap = {}` makes a new object the current map: an assignment
\* `qrDataMap[row.prn] = await ...` whose target was evaluated before it
\* now writes to an object nobody reads.
Orphaned(ls) == [f \in Files |-> [ls[f] EXCEPT !.live = FALSE]]

\* handleFileSelect / drop, and onFileReady up to Papa.parse: the upload
\* area is hidden, the file is shown, parsing starts.  The upload area can
\* be clicked only while it is displayed, that is while no file is shown.
handleFileSelect(f, file) ==
  /\ ~selectedFile
  /\ loads[f].pc = "unused"
  /\ \A g \in Files : g < f => loads[g].pc # "unused"
  /\ selectedFile' = TRUE
  /\ loads' = [loads EXCEPT ![f] = [UnusedLoad EXCEPT !.pc = "parsing",
                                                      !.file = file]]
  /\ UNCHANGED <<attendees, nextDocId, clock, eventVars, checkinVars,
                 scanVars, shellVars, parsedData, qrDataMap,
                 processBtnDisabled, run, pendingAdds, overlapped, dashVars>>

\* The parse's complete callback on a file with every required column and
\* at least one kept row, up to the first await of the QR loop: parsedData
\* and qrDataMap are replaced, the first QR is requested.
ParseComplete(f) ==
  /\ loads[f].pc = "parsing"
  /\ MissingColumns(loads[f].file) = {}
  /\ CleanRows(loads[f].file) # <<>>
  /\ parsedData' = CleanRows(loads[f].file)
  /\ qrDataMap' = {}
  /\ loads' = [Orphaned(loads) EXCEPT ![f] =
                 [UnusedLoad EXCEPT !.pc = "generating",
                                    !.rows = CleanRows(loads[f].file),
                                    !.live = TRUE]]
  /\ UNCHANGED <<attendees, nextDocId, clock, eventVars, checkinVars,
                 scanVars, shellVars, selectedFile, processBtnDisabled, run,
                 pendingAdds, overlapped, dashVars>>

\* The complete callback on a file that lacks a required column, or whose
\* rows are all filtered out: the toast, resetUpload(), return.
ParseRejected(f) ==
  /\ loads[f].pc = "parsing"
  /\ MissingColumns(loads[f].file) # {} \/ CleanRows(loads[f].file) = <<>>
  /\ selectedFile' = FALSE
  /\ parsedData' = <<>>
  /\ qrDataMap' = {}
  /\ processBtnDisabled' = TRUE
  /\ loads' = [Orphaned(loads) EXCEPT ![f] =
                 [UnusedLoad EXCEPT !.pc = "rejected",
                                    !.missing = MissingColumns(loads[f].file)]]
  /\ UNCHANGED <<attendees, nextDocId, clock, eventVars, checkinVars,
                 scanVars, shellVars, run, pendingAdds, overlapped, dashVars>>

\* The parse's error callback: the toast, resetUpload().
ParseError(f) ==
  /\ loads[f].pc = "parsing"
  /\ selectedFile' = FALSE
  /\ parsedData' = <<>>
  /\ qrDataMap' = {}
  /\ processBtnDisabled' = TRUE
  /\ loads' = [Orphaned(loads) EXCEPT ![f] = [UnusedLoad EXCEPT !.pc = "done"]]
  /\ UNCHANGED <<attendees, nextDocId, clock, eventVars, checkinVars,
                 scanVars, shellVars, run, pendingAdds, overlapped, dashVars>>

\* generateQRCode resolves for row k+1 of the load's own rows: the QR is
\* stored in the map the assignment captured; then either the next QR is
\* requested or showPreview runs and the process button is enabled.
QrGenerated(f) ==
  /\ loads[f].pc = "generating"
  /\ LET l == loads[f]
         k == l.k + 1
     IN /\ qrDataMap' = IF l.live THEN qrDataMap \cup {l.rows[k].prn}
                                  ELSE qrDataMap
        /\ IF k < Len(l.rows)
             THEN /\ loads' = [loads EXCEPT ![f].k = k, ![f].live = TRUE]
                  /\ UNCHANGED processBtnDisabled
             ELSE /\ loads' = [loads EXCEPT ![f] =
                                       [UnusedLoad EXCEPT !.pc = "done"]]
                  /\ processBtnDisabled' = FALSE
  /\ UNCHANGED <<attendees, nextDocId, clock, eventVars, checkinVars,
                 scanVars, shellVars, selectedFile, parsedData, run,
                 pendingAdds, overlapped, dashVars>>

\* resetUpload, from the remove-file button (shown with the file).
resetUpload ==
  /\ selectedFile
  /\ selectedFile' = FALSE
  /\ parsedData' = <<>>
  /\ qrDataMap' = {}
  /\ processBtnDisabled' = TRUE
  /\ loads' = Orphaned(loads)
  /\ UNCHANGED <<attendees, nextDocId, clock, eventVars, checkinVars,
                 scanVars, shellVars, run, pendingAdds, overlapped, dashVars>>

\* ------------------------------------------- UploadModule: the import run
\* The row local of an invocation that holds no row.
NoRow == [name |-> "", prn |-> ""]

\* One invocation of processAndUpload.  i, total, uploaded, skipped, failed
\* and row are its locals; startEvent is history (the event selected at
\* the click); docQr and docUnder describe the document built for the row
\* being added; roster and rerun are history: the roster the invocation
\* found when it passed the probe, and whether an earlier invocation had
\* by then reported that very roster uploaded in full; queries and adds are
\* history: the duplicate queries and the adds issued for the row at hand.
\* When the invocation ends its counters are kept, and its roster if it
\* uploaded every row.
UnusedRun ==
  [pc |-> "unused", i |-> 0, total |-> 0, uploaded |-> 0, skipped |-> 0,
   failed |-> 0, row |-> NoRow, startEvent |-> Null, docQr |-> FALSE,
   docUnder |-> Null, roster |-> <<>>, rerun |-> FALSE, queries |-> 0,
   adds |-> 0]

InProgress(r) == run[r].pc \in {"probe", "query", "add"}

\* A duplicate query that never finds anything.
ExistingMatchesNone(prn) == {}
\* attendeesRef.where("prn","==",row.prn).limit(1): the duplicate query
\* filters on prn alone.
ExistingMatches(prn) == {d \in attendees : d.prn = prn}

\* docData of processAndUpload: no eventId field is written.
docData(id, row, qr, under) ==
  Doc(id, Absent, row.name, row.prn, FALSE, NoTime, qr, under)

\* The head of `for (let i = 0; i < total; i++)` for index i: the row is
\* read from the current parsedData and the duplicate query is issued;
\* `row.name` on a missing row throws outside the try block, which ends
\* the invocation; past the last index the results are shown.
LoopHead(rr, i) ==
  IF i < rr.total
    THEN IF i + 1 <= Len(parsedData)
           THEN [rr EXCEPT !.pc = "query", !.i = i, !.row = parsedData[i + 1],
                           !.docQr = FALSE, !.docUnder = Null,
                           !.queries = 1, !.adds = 0]
           ELSE [rr EXCEPT !.pc = "crashed", !.i = i, !.row = NoRow,
                           !.startEvent = Null, !.docQr = FALSE,
                           !.docUnder = Null, !.roster = <<>>,
                           !.queries = 0, !.adds = 0]
    ELSE [rr EXCEPT !.pc = "reported", !.i = i, !.row = NoRow,
                    !.startEvent = Null, !.docQr = FALSE, !.docUnder = Null,
                    !.roster = IF rr.uploaded = rr.total THEN @ ELSE <<>>,
                    !.queries = 0, !.adds = 0]

\* processAndUpload up to the connectivity probe's await.  A disabled
\* button delivers no click; with no parsed rows the handler returns at
\* once.
ProcessClick(r) ==
  /\ ~processBtnDisabled
  /\ Len(parsedData) # 0
  /\ run[r].pc = "unused"
  /\ \A q \in Runs : q < r => run[q].pc # "unused"
  /\ processBtnDisabled' = TRUE
  /\ run' = [run EXCEPT ![r] = [UnusedRun EXCEPT !.pc = "probe",
                                  !.startEvent = getSelectedEventId]]
  /\ overlapped' = (overlapped \/ \E q \in Runs : InProgress(q))
  /\ UNCHANGED <<attendees, nextDocId, clock, eventVars, checkinVars,
                 scanVars, shellVars, selectedFile, parsedData, qrDataMap,
                 loads, pendingAdds, dashVars>>

\* The probe's catch block returning with the button left disabled.
ProbeFailsButtonStuck(r) ==
  /\ run[r].pc = "probe"
  /\ run' = [run EXCEPT ![r].pc = "aborted", ![r].startEvent = Null]
  /\ UNCHANGED <<attendees, nextDocId, clock, eventVars, checkinVars,
                 scanVars, shellVars, selectedFile, parsedData, qrDataMap,
                 processBtnDisabled, loads, pendingAdds, overlapped,
                 dashVars>>

\* The probe rejects or times out: the button is re-enabled, return.
ProbeFails(r) ==
  /\ run[r].pc = "probe"
  /\ processBtnDisabled' = FALSE
  /\ run' = [run EXCEPT ![r].pc = "aborted", ![r].startEvent = Null]
  /\ UNCHANGED <<attendees, nextDocId, clock, eventVars, checkinVars,
                 scanVars, shellVars, selectedFile, parsedData, qrDataMap,
                 loads, pendingAdds, overlapped, dashVars>>

\* The probe resolves: the counters are zeroed, total is read from the
\* current parsedData, the loop is entered.
ProbeOk(r) ==
  /\ run[r].pc = "probe"
  /\ run' = [run EXCEPT ![r] =
               LoopHead([run[r] EXCEPT
                           !.total = Len(parsedData),
                           !.roster = parsedData,
                           !.rerun = \E q \in Runs :
                                       /\ run[q].pc = "reported"
                                       /\ run[q].total # 0
                                       /\ run[q].uploaded = run[q].total
                                       /\ run[q].roster = parsedData], 0)]
  /\ UNCHANGED <<attendees, nextDocId, clock, eventVars, checkinVars,
                 scanVars, shellVars, selectedFile, parsedData, qrDataMap,
                 processBtnDisabled, loads, pendingAdds, overlapped,
                 dashVars>>

\* The duplicate query resolves non-empty: skipped++, continue.
RowQueryFound(r) ==
  /\ run[r].pc = "query"
  /\ ExistingMatches(run[r].row.prn) # {}
  /\ run' = [run EXCEPT ![r] =
               LoopHead([run[r] EXCEPT !.skipped = @ + 1], run[r].i + 1)]
  /\ UNCHANGED <<attendees, nextDocId, clock, eventVars, checkinVars,
                 scanVars, shellVars, selectedFile, parsedData, qrDataMap,
                 processBtnDisabled, loads, pendingAdds, overlapped,
                 dashVars>>

\* The duplicate query resolves empty: the document is built with the
\* pre-generated QR (or "") and the add is issued.
RowQueryEmpty(r) ==
  /\ run[r].pc = "query"
  /\ ExistingMatches(run[r].row.prn) = {}
  /\ run' = [run EXCEPT ![r].pc = "add", ![r].adds = 1,
                        ![r].docQr = (run[r].row.prn \in qrDataMap),
                        ![r].docUnder = getSelectedEventId]
  /\ UNCHANGED <<attendees, nextDocId, clock, eventVars, checkinVars,
                 scanVars, shellVars, selectedFile, parsedData, qrDataMap,
                 processBtnDisabled, loads, pendingAdds, overlapped,
                 dashVars>>

\* A row's catch block that gives the import up as the probe's does.
RowQueryFailsAborts(r) ==
  /\ run[r].pc = "query"
  /\ processBtnDisabled' = FALSE
  /\ run' = [run EXCEPT ![r].pc = "aborted", ![r].failed = @ + 1]
  /\ UNCHANGED <<attendees, nextDocId, clock, eventVars, checkinVars,
                 scanVars, shellVars, selectedFile, parsedData, qrDataMap,
                 loads, pendingAdds, overlapped, dashVars>>

\* The duplicate query wrapped in retryAsync: a failed query is issued
\* again, up to the helper's two retries.
RowQueryFailsRetries(r) ==
  /\ run[r].pc = "query"
  /\ run[r].queries < 3
  /\ run' = [run EXCEPT ![r].queries = @ + 1]
  /\ UNCHANGED <<attendees, nextDocId, clock, eventVars, checkinVars,
                 scanVars, shellVars, selectedFile, parsedData, qrDataMap,
                 processBtnDisabled, loads, pendingAdds, overlapped,
                 dashVars>>

\* The duplicate query rejects or exceeds its 10 s: failed++, continue.
RowQueryFails(r) ==
  /\ run[r].pc = "query"
  /\ run' = [run EXCEPT ![r] =
               LoopHead([run[r] EXCEPT !.failed = @ + 1], run[r].i + 1)]
  /\ UNCHANGED <<attendees, nextDocId, clock, eventVars, checkinVars,
                 scanVars, shellVars, selectedFile, parsedData, qrDataMap,
                 processBtnDisabled, loads, pendingAdds, overlapped,
                 dashVars>>

\* The add resolves: the store holds the document; uploaded++, continue.
RowAddDone(r) ==
  /\ run[r].pc = "add"
  /\ attendees' = attendees \cup
       {docData(nextDocId, run[r].row, run[r].docQr, run[r].docUnder)}
  /\ nextDocId' = nextDocId + 1
  /\ run' = [run EXCEPT ![r] =
               LoopHead([run[r] EXCEPT !.uploaded = @ + 1], run[r].i + 1)]
  /\ UNCHANGED <<clock, eventVars, checkinVars, scanVars, shellVars,
                 selectedFile, parsedData, qrDataMap, processBtnDisabled,
                 loads, pendingAdds, overlapped, dashVars>>

\* The add rejects: nothing is stored; failed++, continue.
RowAddFails(r) ==
  /\ run[r].pc = "add"
  /\ run' = [run EXCEPT ![r] =
               LoopHead([run[r] EXCEPT !.failed = @ + 1], run[r].i + 1)]
  /\ UNCHANGED <<attendees, nextDocId, clock, eventVars, checkinVars,
                 scanVars, shellVars, selectedFile, parsedData, qrDataMap,
                 processBtnDisabled, loads, pendingAdds, overlapped,
                 dashVars>>

\* withTimeout's timer wins the race against the add: failed++, continue.
\* Promise.race does not cancel the add, whose write stays in flight.
RowAddTimesOut(r) ==
  /\ run[r].pc = "add"
  /\ Len(pendingAdds) < MaxPending
  /\ pendingAdds' = Append(pendingAdds,
       [row |-> run[r].row, qr |-> run[r].docQr, under |-> run[r].docUnder])
  /\ run' = [run EXCEPT ![r] =
               LoopHead([run[r] EXCEPT !.failed = @ + 1], run[r].i + 1)]
  /\ UNCHANGED <<attendees, nextDocId, clock, eventVars, checkinVars,
                 scanVars, shellVars, selectedFile, parsedData, qrDataMap,
                 processBtnDisabled, loads, overlapped, dashVars>>

Without(seq, k) == [j \in 1..(Len(seq) - 1) |-> IF j < k THEN seq[j] ELSE seq[j + 1]]

\* An add that lost the race reaches the store after all.
PendingAddLands ==
  \E k \in 1..Len(pendingAdds) :
    /\ attendees' = attendees \cup
         {docData(nextDocId, pendingAdds[k].row, pendingAdds[k].qr,
                  pendingAdds[k].under)}
    /\ nextDocId' = nextDocId + 1
    /\ pendingAdds' = Without(pendingAdds, k)
    /\ UNCHANGED <<clock, eventVars, checkinVars, scanVars, shellVars,
                   selectedFile, parsedData, qrDataMap, processBtnDisabled,
                   loads, run, overlapped, dashVars>>

\* An add that lost the race is rejected in the end.
PendingAddLost ==
  \E k \in 1..Len(pendingAdds) :
    /\ pendingAdds' = Without(pendingAdds, k)
    /\ UNCHANGED <<attendees, nextDocId, clock, eventVars, checkinVars,
                   scanVars, shellVars, selectedFile, parsedData, qrDataMap,
                   processBtnDisabled, loads, run, overlapped, dashVars>>

processAndUpload ==
  \E r \in Runs :
    \/ ProcessClick(r)
    \/ ProbeFails(r)
    \/ ProbeOk(r)
    \/ RowQueryFound(r)
    \/ RowQueryEmpty(r)
    \/ RowQueryFails(r)
    \/ RowAddDone(r)
    \/ RowAddFails(r)
    \/ RowAddTimesOut(r)

\* --------------------------------------------- CheckInModule: the scanner
\* The texts the camera may decode from the codes held in front of it: the
\* identifiers, and one with white space around it.
RawCodes == {"p1", "p2", " p1 "}

\* The main application is displayed and initApp has registered the
\* listeners of its buttons: they can be clicked.
MainAppShown == mainAppShown /\ appInitialized

\* A decode callback can only come from an instance whose camera runs.
CameraOn == \E s \in Starts : instances[s] = "running"

\* stopScanner up to its await: with an instance and isScanning set, stop()
\* is called on the instance and awaited; otherwise the buttons are put back
\* at once.
stopScannerEnter ==
  IF html5QrCode # 0 /\ isScanning
    THEN /\ stops[html5QrCode] < MaxStops
         /\ stops' = [stops EXCEPT ![html5QrCode] = @ + 1]
         /\ UNCHANGED <<isScanning, startScanBtnShown>>
    ELSE /\ startScanBtnShown' = TRUE
         /\ UNCHANGED <<isScanning, stops>>

\* startScanner up to its await: a new instance replaces the one held and
\* its start() is awaited.
StartClick(s) ==
  /\ MainAppShown /\ activePage = "checkin" /\ startScanBtnShown
  /\ instances[s] = "unused"
  /\ \A t \in Starts : t < s => instances[t] # "unused"
  /\ html5QrCode' = s
  /\ instances' = [instances EXCEPT ![s] = "starting"]
  /\ UNCHANGED <<attendees, nextDocId, clock, eventVars, checkinVars,
                 uploadVars, isScanning, startScanBtnShown, stops,
                 scanCooldown, lastScannedCode, cooldownTimers, scanned,
                 shellVars, dashVars>>

\* start() resolves: the camera runs, and only now isScanning is set.
StartDone(s) ==
  /\ instances[s] = "starting"
  /\ instances' = [instances EXCEPT ![s] = "running"]
  /\ isScanning' = TRUE
  /\ startScanBtnShown' = FALSE
  /\ UNCHANGED <<attendees, nextDocId, clock, eventVars, checkinVars,
                 uploadVars, html5QrCode, stops, scanCooldown,
                 lastScannedCode, cooldownTimers, scanned, shellVars,
                 dashVars>>

\* start() rejects (no camera, no permission): a toast, nothing else.
StartFails(s) ==
  /\ instances[s] = "starting"
  /\ instances' = [instances EXCEPT ![s] = "failed"]
  /\ UNCHANGED <<attendees, nextDocId, clock, eventVars, checkinVars,
                 uploadVars, html5QrCode, isScanning, startScanBtnShown,
                 stops, scanCooldown, lastScannedCode, cooldownTimers,
                 scanned, shellVars, dashVars>>

\* A click on the stop button, which is displayed in place of the start
\* button.
StopClick ==
  /\ MainAppShown /\ activePage = "checkin" /\ ~startScanBtnShown
  /\ stopScannerEnter
  /\ UNCHANGED <<attendees, nextDocId, clock, eventVars, checkinVars,
                 uploadVars, html5QrCode, instances, scanCooldown,
                 lastScannedCode, cooldownTimers, scanned, shellVars,
                 dashVars>>

\* stopScanner after its await: stop() has stopped the camera of an instance
\* that was running, or was rejected by one that was not, which the catch
\* ignores; isScanning is cleared and the buttons are put back either way.
StopDone(s) ==
  /\ stops[s] > 0
  /\ stops' = [stops EXCEPT ![s] = @ - 1]
  /\ instances' = [instances EXCEPT ![s] =
                     IF @ = "running" THEN "stopped" ELSE @]
  /\ isScanning' = FALSE
  /\ startScanBtnShown' = TRUE
  /\ UNCHANGED <<attendees, nextDocId, clock, eventVars, checkinVars,
                 uploadVars, html5QrCode, scanCooldown, lastScannedCode,
                 cooldownTimers, scanned, shellVars, dashVars>>

\* The guard left out: every decode callback is taken.
ScanGuardOmitted(decodedText) == FALSE
\* A guard that compares the code and does not look at the cooldown flag.
ScanGuardSameCodeOnly(decodedText) == decodedText = lastScannedCode
\* `if (scanCooldown || decodedText === lastScannedCode) return;`
ScanIgnored(decodedText) ==
  scanCooldown \/ decodedText = lastScannedCode

\* onScanSuccess(decodedText): an ignored callback returns at once; an
\* accepted one records the code, raises the cooldown, arms the 3-second
\* timeout and calls lookupAndCheckIn(decodedText.trim()), which runs up to
\* its first await.
onScanSuccess(decodedText) ==
  /\ CameraOn
  /\ scanned' = [tick |-> ~scanned.tick, code |-> decodedText]
  /\ IF ScanIgnored(decodedText)
       THEN UNCHANGED <<scanCooldown, lastScannedCode, cooldownTimers,
                        checkinVars>>
       ELSE /\ cooldownTimers < MaxTimers
            /\ lastScannedCode' = decodedText
            /\ scanCooldown' = TRUE
            /\ cooldownTimers' = cooldownTimers + 1
            /\ \E a \in Lookups : LookupEnter(a, trim(decodedText), decodedText)
  /\ UNCHANGED <<attendees, nextDocId, clock, eventVars, uploadVars,
                 html5QrCode, isScanning, startScanBtnShown, instances, stops,
                 shellVars, dashVars>>

\* The timeout armed by an accepted scan fires after 3 seconds.
CooldownTimerFires ==
  /\ cooldownTimers > 0
  /\ cooldownTimers' = cooldownTimers - 1
  /\ scanCooldown' = FALSE
  /\ lastScannedCode' = ""
  /\ UNCHANGED <<attendees, nextDocId, clock, eventVars, checkinVars,
                 uploadVars, html5QrCode, isScanning, startScanBtnShown,
                 instances, stops, scanned, shellVars, dashVars>>

\* ------------------------------------------------------- DashboardModule
\* The dashboard's texts are sequences of characters.  A cached attendee is
\* the part of a document the table's filter and search read.
CachedRows ==
  { [name |-> <<"A", "s", "h", "a">>, prn |-> <<"p", "1">>,
     email |-> <<"a", "@", "x">>, checkedIn |-> FALSE],
    [name |-> <<"R", "a", "v", "i">>, prn |-> <<"p", "2">>,
     email |-> <<"A", "S", "H", "@", "x">>, checkedIn |-> TRUE],
    [name |-> <<"A", "s", "h">>, prn |-> <<"p", "3">>,
     email |-> <<>>, checkedIn |-> TRUE] }

\* The lists a query may return: documents of the collection, each once.
CachedLists ==
  UNION { {l \in [1..n -> CachedRows] :
             \A j, k \in 1..n : j # k => l[j] # l[k]} : n \in 0..MaxCached }

\* What the operator may have typed into the search box.
SearchTexts ==
  { <<>>, <<"A", "S", "H">>, <<" ", "p", "1", " ">>, <<"a", " ", "p">>,
    <<"z">> }

Filters == {"all", "checked-in", "pending"}

\* toLowerCase() of one character of the texts above.
LowerChar(c) ==
  CASE c = "A" -> "a"
    [] c = "S" -> "s"
    [] c = "H" -> "h"
    [] c = "R" -> "r"
    [] OTHER   -> c

TextToLowerCase(t) == [j \in 1..Len(t) |-> LowerChar(t[j])]

\* trim() of a text: the spaces at both ends are dropped.
RECURSIVE TextTrim(_)
TextTrim(t) ==
  IF t = <<>> THEN t
  ELSE IF Head(t) = " " THEN TextTrim(Tail(t))
  ELSE IF t[Len(t)] = " " THEN TextTrim(SubSeq(t, 1, Len(t) - 1))
  ELSE t

\* String.prototype.includes.
Includes(haystack, query) ==
  \E k \in 0..(Len(haystack) - Len(query)) :
    SubSeq(haystack, k + 1, k + Len(query)) = query

\* `${a.name} ${a.prn} ${a.email}`.toLowerCase()
Haystack(a) ==
  TextToLowerCase(a.name \o <<" ">> \o a.prn \o <<" ">> \o a.email)

\* `filtered` of renderTable: the status filter, then the search.
filtered(list, filter, search) ==
  LET query == TextTrim(TextToLowerCase(search))
      Keep(a) ==
        IF filter = "checked-in" /\ ~a.checkedIn THEN FALSE
        ELSE IF filter = "pending" /\ a.checkedIn THEN FALSE
        ELSE IF query # <<>> THEN Includes(Haystack(a), query)
        ELSE TRUE
  IN SelectSeq(list, Keep)

\* An export of the whole cached list.
ExportDataUnfiltered(list, filter, search) == list
\* `exportData` of exportCSV.
exportData(list, filter, search) ==
  LET query == TextTrim(TextToLowerCase(search))
      Keep(a) ==
        IF filter = "checked-in" /\ ~a.checkedIn THEN FALSE
        ELSE IF filter = "pending" /\ a.checkedIn THEN FALSE
        ELSE IF query # <<>> THEN Includes(Haystack(a), query)
        ELSE TRUE
  IN SelectSeq(list, Keep)

\* renderTable: the body is emptied and one row is appended for each
\* attendee of `filtered`.
renderTable(list, filter, search) ==
  tableRows' = filtered(list, filter, search)

\* loadDashboard up to its await: with no event selected the cache is
\* emptied and the table rendered at once; otherwise the query is issued.
loadDashboardEnter ==
  IF getSelectedEventId = Null
    THEN /\ allAttendees' = <<>>
         /\ renderTable(<<>>, currentFilter, searchInput)
         /\ UNCHANGED dashLoad
    ELSE /\ dashLoad = "idle"
         /\ dashLoad' = "loading"
         /\ UNCHANGED <<allAttendees, tableRows>>

\* A click on the refresh button of the Dashboard page.
RefreshClick ==
  /\ MainAppShown /\ activePage = "dashboard"
  /\ loadDashboardEnter
  /\ UNCHANGED <<attendees, nextDocId, clock, eventVars, checkinVars,
                 scanVars, shellVars, uploadVars, currentFilter,
                 searchInput, exported>>

\* The query resolves: the snapshot becomes the cache and the table is
\* rendered.  The documents' email and creation time, which the list and
\* its order depend on, are not held by the attendees variable: the
\* snapshot is any list the query can return.
LoadDashboardDone(list) ==
  /\ dashLoad = "loading"
  /\ dashLoad' = "idle"
  /\ allAttendees' = list
  /\ renderTable(list, currentFilter, searchInput)
  /\ UNCHANGED <<attendees, nextDocId, clock, eventVars, checkinVars,
                 scanVars, shellVars, uploadVars, currentFilter,
                 searchInput, exported>>

\* The query rejects: a toast; the cache and the table stay.
LoadDashboardFails ==
  /\ dashLoad = "loading"
  /\ dashLoad' = "idle"
  /\ UNCHANGED <<attendees, nextDocId, clock, eventVars, checkinVars,
                 scanVars, shellVars, uploadVars, allAttendees,
                 currentFilter, searchInput, tableRows, exported>>

\* A click on a filter button.
FilterClick(filter) ==
  /\ MainAppShown /\ activePage = "dashboard"
  /\ currentFilter' = filter
  /\ renderTable(allAttendees, filter, searchInput)
  /\ UNCHANGED <<attendees, nextDocId, clock, eventVars, checkinVars,
                 scanVars, shellVars, uploadVars, allAttendees, searchInput,
                 exported, dashLoad>>

\* The input event of the search box.
SearchInput(text) ==
  /\ MainAppShown /\ activePage = "dashboard"
  /\ searchInput' = text
  /\ renderTable(allAttendees, currentFilter, text)
  /\ UNCHANGED <<attendees, nextDocId, clock, eventVars, checkinVars,
                 scanVars, shellVars, uploadVars, allAttendees,
                 currentFilter, exported, dashLoad>>

\* exportCSV, from the export button: with nothing to export a toast and
\* no file; otherwise a file with one line for each attendee of exportData.
exportCSV ==
  /\ MainAppShown /\ activePage = "dashboard"
  /\ LET data == exportData(allAttendees, currentFilter, searchInput)
     IN exported' = [tick |-> ~exported.tick, made |-> data # <<>>,
                     rows |-> data]
  /\ UNCHANGED <<attendees, nextDocId, clock, eventVars, checkinVars,
                 scanVars, shellVars, uploadVars, allAttendees,
                 currentFilter, searchInput, tableRows, dashLoad>>

\* --------------------------------------------------- navigation and session
\* A click on a navigation button: the target page becomes the active one;
\* leaving Check-In calls stopScanner, entering Dashboard calls
\* loadDashboard, entering Events calls loadEvents.
NavClick(targetPage) ==
  /\ MainAppShown
  /\ activePage' = targetPage
  /\ IF targetPage # "checkin"
       THEN stopScannerEnter
       ELSE UNCHANGED <<isScanning, startScanBtnShown, stops>>
  /\ IF targetPage = "dashboard"
       THEN loadDashboardEnter
       ELSE UNCHANGED <<allAttendees, tableRows, dashLoad>>
  /\ IF targetPage = "events"
       THEN evLoad = "idle" /\ evLoad' = "loading"
       ELSE evLoad' = evLoad
  /\ UNCHANGED <<attendees, nextDocId, clock, selectedEventId, events,
                 allEvents, del, checkinVars, uploadVars, html5QrCode,
                 instances, scanCooldown, lastScannedCode, cooldownTimers,
                 scanned, auth, appInitialized, inits, loginPageShown,
                 mainAppShown, signIns, currentFilter, searchInput,
                 exported>>

\* A click on the logout button: stopScanner is called and not awaited,
\* then signOut is awaited.
LogoutClick ==
  /\ auth = "in" /\ mainAppShown
  /\ stopScannerEnter
  /\ auth' = "signingOut"
  /\ UNCHANGED <<attendees, nextDocId, clock, eventVars, checkinVars,
                 uploadVars, html5QrCode, instances, scanCooldown,
                 lastScannedCode, cooldownTimers, scanned, activePage,
                 appInitialized, inits, loginPageShown, mainAppShown,
                 signIns, dashVars>>

\* An initApp without the appInitialized guard.
InitAppUnguarded ==
  /\ appInitialized' = TRUE
  /\ inits' = [m \in Modules |-> inits[m] + 1]
  /\ evLoad' = "loading"
\* initApp: on its first call the four init functions run, EventsModule's
\* calling loadEvents; later calls return at once.
initApp ==
  IF appInitialized
    THEN UNCHANGED <<appInitialized, inits, evLoad>>
    ELSE /\ appInitialized' = TRUE
         /\ inits' = [m \in Modules |-> inits[m] + 1]
         /\ evLoad' = "loading"

\* showApp: the login page is hidden, the main application displayed, and
\* initApp called.
showApp ==
  /\ loginPageShown' = FALSE
  /\ mainAppShown' = TRUE
  /\ initApp

\* The auth listener called with a user.
AuthUser ==
  /\ signIns < MaxSignIns
  /\ auth' = "in"
  /\ signIns' = signIns + 1
  /\ showApp
  /\ UNCHANGED <<attendees, nextDocId, clock, selectedEventId, events,
                 allEvents, del, checkinVars, uploadVars, scanVars,
                 activePage, dashVars>>

\* The auth listener called with null: the main application is hidden and
\* the login page displayed.
AuthNull ==
  /\ auth' = "out"
  /\ mainAppShown' = FALSE
  /\ loginPageShown' = TRUE
  /\ UNCHANGED <<attendees, nextDocId, clock, eventVars, checkinVars,
                 uploadVars, scanVars, activePage, appInitialized, inits,
                 signIns, dashVars>>

\* The listener's first call when the page is loaded: the session is
\* restored, or there is none.
SessionRestored == auth = "boot" /\ AuthUser
SessionNone == auth = "boot" /\ AuthNull

\* signOut resolves and the auth listener is called with null.
SignOutDone == auth = "signingOut" /\ AuthNull

\* A login succeeds and the auth listener is called with the user.
LoginDone == auth = "out" /\ AuthUser

\* ------------------------------------------------------ the specifications
\* The page is loaded against whatever the collections hold; nothing is
\* selected, no file is chosen, the panels are in their default state.
InitData ==
  /\ attendees \in SUBSET SeedDocs
  /\ nextDocId = Cardinality(SeedDocs) + 1
  /\ clock = 1
  /\ selectedEventId = Null
  /\ events = SeedEvents
  /\ allEvents = <<>>
  /\ del = [d \in Deletes |-> UnusedDelete]
  /\ resultState = "default"
  /\ lk = [a \in Lookups |-> IdleLookup]
  /\ latest = 0
  /\ html5QrCode = 0
  /\ isScanning = FALSE
  /\ startScanBtnShown = TRUE
  /\ instances = [s \in Starts |-> "unused"]
  /\ stops = [s \in Starts |-> 0]
  /\ scanCooldown = FALSE
  /\ lastScannedCode = ""
  /\ cooldownTimers = 0
  /\ scanned = [tick |-> FALSE, code |-> ""]
  /\ activePage = "upload"
  /\ allAttendees = <<>>
  /\ currentFilter = "all"
  /\ searchInput = <<>>
  /\ tableRows = <<>>
  /\ exported = [tick |-> FALSE, made |-> FALSE, rows |-> <<>>]
  /\ dashLoad = "idle"
  /\ selectedFile = FALSE
  /\ parsedData = <<>>
  /\ qrDataMap = {}
  /\ processBtnDisabled = TRUE
  /\ loads = [f \in Files |-> UnusedLoad]
  /\ run = [r \in Runs |-> UnusedRun]
  /\ pendingAdds = <<>>
  /\ overlapped = FALSE

\* The session has been restored: the main application is displayed, the
\* modules are initialised and the loadEvents call of EventsModule.init is
\* awaited.
Init ==
  /\ InitData
  /\ auth = "in"
  /\ appInitialized = TRUE
  /\ inits = [m \in Modules |-> 1]
  /\ loginPageShown = FALSE
  /\ mainAppShown = TRUE
  /\ signIns = 1
  /\ evLoad = "loading"

\* The page before the auth listener's first call: nothing is initialised;
\* which of the login page and the main application the markup displays
\* is not known.
InitBoot ==
  /\ InitData
  /\ attendees = SeedDocs
  /\ auth = "boot"
  /\ appInitialized = FALSE
  /\ inits = [m \in Modules |-> 0]
  /\ loginPageShown \in BOOLEAN
  /\ mainAppShown \in BOOLEAN
  /\ signIns = 0
  /\ evLoad = "idle"

SelectEvent == \E e \in Events : selectEvent(e)
FileSelect == \E f \in Files, file \in RosterFiles : handleFileSelect(f, file)
\* The first file chosen, well-formed or of any kind.
FileSelectOnce == \E file \in RosterFiles : handleFileSelect(1, file)
FileSelectAny == \E file \in RawFiles : handleFileSelect(1, file)
FileLoad == \E f \in Files : ParseComplete(f) \/ QrGenerated(f)
FileReject == \E f \in Files : ParseRejected(f) \/ ParseError(f)

\* The scanner's buttons and the completions of start() and stop().
Scanner ==
  \/ \E s \in Starts : StartClick(s) \/ StartDone(s) \/ StartFails(s)
  \/ StopClick
  \/ \E s \in Starts : StopDone(s)
\* Decode callbacks and the cooldown timeout.
Scans == (\E code \in RawCodes : onScanSuccess(code)) \/ CooldownTimerFires
Navigate == \E targetPage \in Pages : NavClick(targetPage)
Session == LogoutClick \/ SignOutDone \/ LoginDone
Boot == SessionRestored \/ SessionNone
\* The Dashboard page's buttons, its search box and its query's answers.
Dashboard ==
  \/ RefreshClick
  \/ \E list \in CachedLists : LoadDashboardDone(list)
  \/ LoadDashboardFails
  \/ \E filter \in Filters : FilterClick(filter)
  \/ \E text \in SearchTexts : SearchInput(text)
  \/ exportCSV

\* The whole page.
Next ==
  \/ SelectEvent
  \/ \E e \in Events : SelectClick(e)
  \/ loadEvents
  \/ handleDeleteEvent
  \/ lookupAndCheckIn
  \/ FileSelect
  \/ FileSelectAny
  \/ FileLoad
  \/ FileReject
  \/ resetUpload
  \/ processAndUpload
  \/ PendingAddLands
  \/ PendingAddLost
  \/ Scanner
  \/ Scans
  \/ Navigate
  \/ Session
  \/ Dashboard
  \/ Boot

Spec == Init /\ [][Next]_vars

\* The Check-In page alone: resolutions against the stored documents.
NextCheckIn == SelectEvent \/ lookupAndCheckIn

SpecCheckIn == Init /\ [][NextCheckIn]_vars

\* The Upload page alone, one file chosen.
NextUpload ==
  \/ SelectEvent
  \/ FileSelectOnce
  \/ FileLoad
  \/ resetUpload
  \/ processAndUpload
  \/ PendingAddLands
  \/ PendingAddLost

SpecUpload == Init /\ [][NextUpload]_vars

\* An import followed by check-ins: one roster is chosen and uploaded, and
\* identifiers are resolved one at a time.
NextImportCheckIn ==
  \/ SelectEvent
  \/ FileSelect
  \/ FileLoad
  \/ processAndUpload
  \/ PendingAddLands
  \/ PendingAddLost
  \/ Lookup(1)

SpecImportCheckIn == Init /\ [][NextImportCheckIn]_vars

\* The page as it is loaded against a collection holding the documents of
\* both events: the events list arrives and the most recent event becomes
\* the active one, until a listed event is selected; one roster is chosen
\* and uploaded, and identifiers are resolved one at a time.
NextSession ==
  \/ LoadEventsDone
  \/ LoadEventsFails
  \/ \E e \in Events : SelectClick(e)
  \/ FileSelect
  \/ FileLoad
  \/ processAndUpload
  \/ PendingAddLands
  \/ PendingAddLost
  \/ Lookup(1)

\* The collection holds every one of the stored documents.
InitSeeded == Init /\ attendees = SeedDocs

SpecSession == InitSeeded /\ [][NextSession]_vars

\* The Events page: the list is loaded, events are selected and deleted.
NextEvents ==
  \/ \E e \in Events : SelectClick(e)
  \/ loadEvents
  \/ handleDeleteEvent

SpecEvents == Init /\ [][NextEvents]_vars

\* The Upload page against an empty collection, with files removed and
\* chosen again.
InitEmpty == Init /\ attendees = {}

NextReselect ==
  \/ FileSelect
  \/ FileLoad
  \/ resetUpload
  \/ processAndUpload
  \/ PendingAddLands
  \/ PendingAddLost

SpecReselect == InitEmpty /\ [][NextReselect]_vars

\* The Upload page with a first file of any kind (a header line that may
\* lack columns, rows that may lack cells) and well-formed ones after it.
NextParse ==
  \/ FileSelectAny
  \/ FileSelect
  \/ FileLoad
  \/ FileReject
  \/ resetUpload
  \/ processAndUpload
  \/ PendingAddLands
  \/ PendingAddLost

SpecParse == InitEmpty /\ [][NextParse]_vars

\* The camera scanner over a session: the operator moves between the pages,
\* starts and stops the scanner, logs out and in again.
NextScanner ==
  \/ Scanner
  \/ Navigate
  \/ Session
  \/ LoadEventsDone
  \/ LoadEventsFails
  \/ LoadDashboardFails

SpecScanner == InitSeeded /\ [][NextScanner]_vars

\* Scanning on the Check-In page: codes are decoded while the camera runs
\* and each accepted one is resolved against the stored documents.
NextScan ==
  \/ NavClick("checkin")
  \/ StartClick(1)
  \/ StartDone(1)
  \/ Scans
  \/ Resolve
  \/ LoadEventsDone

SpecScan == InitSeeded /\ [][NextScan]_vars

\* The awaited store calls of an import run settle: each is wrapped in
\* withTimeout, whose timer rejects the wait if the store has not answered.
ImportSettles ==
  \E r \in Runs :
    \/ ProbeFails(r) \/ ProbeOk(r)
    \/ RowQueryFound(r) \/ RowQueryEmpty(r) \/ RowQueryFails(r)
    \/ RowAddDone(r) \/ RowAddFails(r) \/ RowAddTimesOut(r)

\* The first click on a delete button and what follows from it.
DeleteOnce ==
  \/ \E e \in Events : DeleteClick(1, e)
  \/ DeleteQueryDone(1) \/ DeleteQueryFails(1)
  \/ DeleteBatchDone(1) \/ DeleteBatchFails(1)
  \/ DeleteEventDone(1) \/ DeleteEventFails(1)
  \/ DeleteReloadDone(1) \/ DeleteReloadFails(1)

\* A store that may stop answering: an import, resolutions one at a time and
\* an event deletion.  Only the waits that a timer bounds are sure to end; a
\* call without a timer ends when, and if, the store answers.
NextUnanswered ==
  \/ LoadEventsDone
  \/ Lookup(1)
  \/ FileSelectOnce
  \/ FileLoad
  \/ processAndUpload
  \/ PendingAddLands
  \/ PendingAddLost
  \/ DeleteOnce

SpecUnanswered ==
  InitSeeded /\ [][NextUnanswered]_vars /\ WF_vars(ImportSettles)

\* The Dashboard page: the list is loaded and refreshed, filtered, searched
\* and exported.
NextDashboard ==
  \/ NavClick("dashboard")
  \/ Dashboard
  \/ LoadEventsDone

SpecDashboard == InitSeeded /\ [][NextDashboard]_vars

\* The session from the loading of the page: the auth listener's calls, the
\* logout button, and the navigation while the main application is shown.
NextAuth ==
  \/ Boot
  \/ Session
  \/ Navigate
  \/ LoadEventsDone
  \/ LoadEventsFails
  \/ LoadDashboardFails

SpecAuth == InitBoot /\ [][NextAuth]_vars

\* ================================================================ claims
\* The event a document belongs to: its eventId field, or, for a document
\* written without one, the event that was selected when it was imported.
EventOf(d) == IF d.eventId # Absent THEN d.eventId ELSE d.importedUnder

\* C1: of two resolution attempts that resolved the same attendee document
\* and completed without a store error, at most one reports Success: the
\* other reports AlreadyCheckedIn.
C1_ExactlyOneSuccess ==
  \A a, b \in Lookups :
    ( /\ a # b
      /\ lk[a].pc = "done" /\ lk[b].pc = "done"
      /\ lk[a].docId # NoDoc /\ lk[a].docId = lk[b].docId
      /\ lk[a].result = "success"
      /\ lk[b].result \in {"success", "already"} )
    => lk[b].result = "already"

\* C2: once a document has checkedIn = true, every later step leaves it
\* checked in with the same checkInTime.
C2_CheckInOnce ==
  [][\A d \in attendees : d.checkedIn =>
       \A e \in attendees' : e.id = d.id =>
         (e.checkedIn /\ e.checkInTime = d.checkInTime)]_vars

\* C3: in every reachable store state every attendee document has
\* checkedIn = true exactly when its checkInTime is non-null.
C3_CheckedInIffTime ==
  \A d \in attendees : d.checkedIn <=> (d.checkInTime # NoTime)

\* C3 witness: an imported document, a checked-in document and an update
\* that failed are all present.
C3_Witness ==
  /\ \E d \in attendees : d.eventId = Absent /\ ~d.checkedIn
  /\ \E d \in attendees : d.checkedIn /\ d.checkInTime # NoTime
  /\ \E a \in Lookups : lk[a].result = "error" /\ lk[a].docId # NoDoc

\* C4 as stated: every resolution of an identifier whose document was
\* already checked in when the resolution started ends AlreadyCheckedIn,
\* having issued no write.
C4_AlwaysAlreadyCheckedIn ==
  \A a \in Lookups :
    (lk[a].wasChecked /\ lk[a].pc = "done") =>
      (lk[a].result = "already" /\ lk[a].writes = 0)

\* C4 amended: a resolution of an identifier whose document was already
\* checked in when it started changes nothing in the store in any of its
\* steps, issues no write, and ends AlreadyCheckedIn unless its lookup
\* query failed, in which case it ends with the error outcome.
C4_AlreadyUnlessQueryError ==
  [][\A a \in Lookups :
       (lk'[a] # lk[a] /\ lk'[a].wasChecked) =>
         /\ attendees' = attendees
         /\ lk'[a].writes = 0
         /\ lk'[a].pc \in {"query", "done"}
         /\ lk'[a].pc = "done" => lk'[a].result \in {"already", "error"}
         /\ lk'[a].result = "already" =>
              \E d \in attendees : /\ d.id = lk'[a].docId
                                   /\ d.checkInTime = lk'[a].seenTime]_vars

\* C4 witness: such a resolution has ended AlreadyCheckedIn.
C4_Witness ==
  \E a \in Lookups :
    lk[a].wasChecked /\ lk[a].pc = "done" /\ lk[a].result = "already"

\* C5: a resolution, with event E active, of a prn that an import wrote
\* while E was active never ends NotFound.
C5_ImportedRecordIsFound ==
  [][\A a \in Lookups :
       (lk[a].pc = "query" /\ lk'[a].result = "notFound") =>
         ~\E d \in attendees :
            d.importedUnder = lk[a].eventId /\ d.prn = lk[a].prn]_vars

\* C6: as long as no two import runs have overlapped, no two attendee
\* documents of the same event share a prn.
C6_PrnUniquePerEvent ==
  ~overlapped =>
    \A e \in Events : \A d1, d2 \in attendees :
      (EventOf(d1) = e /\ EventOf(d2) = e /\ d1.prn = d2.prn) => d1 = d2

\* C7: with an event active, a row is skipped only if a document with its
\* prn exists in that event, and its add is issued only if none does.
C7_SkipIffDuplicateInEvent ==
  [][\A r \in Runs :
       (run[r].pc = "query" /\ selectedEventId \in Events) =>
         LET dup == \E d \in attendees :
                      d.prn = run[r].row.prn /\ EventOf(d) = selectedEventId
         IN /\ run'[r].skipped = run[r].skipped + 1 => dup
            /\ run'[r].pc = "add" => ~dup]_vars

\* C8: an import started while no event is selected never has a store call
\* in flight.
C8_NoEventNoImport ==
  \A r \in Runs : InProgress(r) => run[r].startEvent # Null

\* C9: a resolution started while no event is selected ends in that same
\* step, with no read and no write issued, the store unchanged and the
\* result panel back in its default state.
C9_NoEventFailsFast ==
  [][\A a \in Lookups :
       ( /\ lk'[a] # lk[a]
         /\ lk[a].pc \in {"idle", "done"}
         /\ selectedEventId = Null ) =>
         /\ lk'[a].pc = "done"
         /\ lk'[a].reads = 0
         /\ lk'[a].writes = 0
         /\ attendees' = attendees
         /\ resultState' = "default"]_vars

\* C9 witness: a resolution was refused for want of a selected event.
C9_Witness ==
  \E a \in Lookups :
    /\ lk[a].result = "noEvent" /\ lk[a].pc = "done"
    /\ lk[a].reads = 0 /\ resultState = "default"

\* C10: an import run that passed the probe and has ended has counted
\* every one of its rows exactly once.
C10_CountersSumToTotal ==
  \A r \in Runs :
    run[r].pc \in {"reported", "crashed"} =>
      run[r].uploaded + run[r].skipped + run[r].failed = run[r].total

\* C11: when the connectivity probe rejects or times out the run ends in
\* that step: the store and the writes in flight are unchanged, no row has
\* been counted, the process button is enabled again, and the run never
\* issues a query or an add afterwards.
C11_ProbeFailureAborts ==
  [][\A r \in Runs :
       /\ (run[r].pc = "probe" /\ run'[r].pc = "aborted") =>
            /\ attendees' = attendees
            /\ nextDocId' = nextDocId
            /\ pendingAdds' = pendingAdds
            /\ ~processBtnDisabled'
            /\ run'[r].i = 0
            /\ run'[r].uploaded + run'[r].skipped + run'[r].failed = 0
       /\ run[r].pc = "aborted" => run'[r] = run[r]]_vars

\* C11 witness: a run was aborted by the probe and the operator can retry.
C11_Witness ==
  \E r \in Runs :
    run[r].pc = "aborted" /\ ~processBtnDisabled /\ Len(parsedData) # 0

C14_ErrorDistinctFromNotFound ==
  [][\A a \in Lookups :
       (lk[a].result # "error" /\ lk'[a].result = "error") =>
         resultState' # "notFound"]_vars

\* C15: a step of a resolution changes the store only when it ends in
\* Success, and then exactly one document changes, the one the resolution
\* matched, in its checkedIn and checkInTime fields alone; steps that end
\* NotFound, AlreadyCheckedIn, in the event guard or in an error write
\* nothing.
C15_OnlySuccessWritesTwoFields ==
  [][attendees' # attendees =>
       \E a \in Lookups :
         /\ lk[a].pc = "update"
         /\ lk'[a].pc = "done" /\ lk'[a].result = "success"
         /\ \E d \in attendees : \E e \in attendees' :
              /\ d.id = lk[a].docId
              /\ d.prn = lk[a].prn /\ d.eventId = lk[a].eventId
              /\ attendees' \ {e} = attendees \ {d}
              /\ e = [d EXCEPT !.checkedIn = e.checkedIn,
                               !.checkInTime = e.checkInTime]
              /\ e.checkedIn /\ e.checkInTime # NoTime]_vars

\* C15 witness: one of two stored documents has been checked in by a
\* resolution, and others have ended NotFound and in an error.
C15_Witness ==
  /\ Cardinality(attendees) = 2
  /\ \E a \in Lookups : \E d \in attendees :
       lk[a].result = "success" /\ d.id = lk[a].docId /\ d.checkedIn
  /\ \E a \in Lookups : lk[a].result \in {"notFound", "error"}

\* The required column a header text names, case and surrounding white
\* space being insignificant; a text that names none stands for itself.
C16_ColumnOf(h) ==
  CASE h \in {"name", "Name"}            -> "name"
    [] h \in {"prn", " PRN "}            -> "prn"
    [] h \in {"email", "EMAIL", "Email"} -> "email"
    [] h \in {"mobile"}                  -> "mobile"
    [] h \in {"year", "Year"}            -> "year"
    [] OTHER                             -> h

\* The required columns that no header text of the file names.
C16_Missing(file) ==
  {col \in REQUIRED_COLUMNS :
     \A j \in 1..Len(file.headers) : C16_ColumnOf(file.headers[j]) # col}

\* C16: when the parse of a file that lacks a required column completes,
\* the load is rejected naming exactly the missing columns; in that step
\* the parsed rows, the QR map and the file selection are cleared and the
\* process button disabled, nothing is written or put in flight, and the
\* rejected load never does anything more.
C16_MissingColumnRejects ==
  [][\A f \in Files :
       /\ ( /\ loads[f].pc = "parsing"
            /\ loads'[f].pc \in {"generating", "rejected"}
            /\ C16_Missing(loads[f].file) # {} ) =>
            /\ loads'[f].pc = "rejected"
            /\ loads'[f].missing = C16_Missing(loads[f].file)
            /\ parsedData' = <<>>
            /\ qrDataMap' = {}
            /\ ~selectedFile'
            /\ processBtnDisabled'
            /\ attendees' = attendees
            /\ pendingAdds' = pendingAdds
            /\ run' = run
       /\ loads[f].pc = "rejected" => loads'[f] = loads[f]]_vars

\* C16 witness: a file lacking columns was rejected and the upload state
\* is reset.
C16_Witness ==
  \E f \in Files :
    /\ loads[f].pc = "rejected" /\ loads[f].missing # {}
    /\ parsedData = <<>> /\ ~selectedFile /\ processBtnDisabled

\* C17: every row retained in the parsed roster has a non-empty name and a
\* non-empty prn, rows of white space included.
C17_RetainedRowsHaveNameAndPrn ==
  \A j \in 1..Len(parsedData) :
    parsedData[j].name # "" /\ parsedData[j].prn # ""

C18_QrBeforePersistence ==
  [][\A r \in Runs :
       ( /\ run[r].pc = "add"
         /\ run'[r].uploaded = run[r].uploaded + 1
         /\ run[r].i < Len(parsedData)
         /\ parsedData[run[r].i + 1] = run[r].row ) =>
         run[r].row.prn \in qrDataMap]_vars

\* C19: once a delete has cleared the selection, the selection leaves the
\* cleared state only by a click on a select button (a step that changes
\* nothing but the selection).
C19_ClearedUntilOperatorSelects ==
  [][( /\ \E d \in Deletes : del[d].wasSelected
       /\ selectedEventId = Null
       /\ selectedEventId' # Null ) =>
       UNCHANGED <<events, allEvents, evLoad, del>>]_vars

\* C20: a delete ends either with the event and every attendee of it gone,
\* or in its catch block with the event, every attendee the event had when
\* the delete started, and the selection still there.
C20_DeleteAllOrNothing ==
  [][\A d \in Deletes :
       /\ (del[d].pc = "event" /\ del'[d].pc = "reload") =>
            /\ del[d].eventId \notin EventIds(events')
            /\ \A x \in attendees' : x.eventId # del[d].eventId
       /\ (del[d].pc # "failed" /\ del'[d].pc = "failed") =>
            /\ del[d].eventId \in EventIds(events')
            /\ \A id \in del[d].startDocs : \E x \in attendees' : x.id = id
            /\ selectedEventId' = selectedEventId]_vars

\* C21: every attendee document has an eventId that is the id of an event
\* document in the store, and a document written by an import carries the
\* id of the event that was selected when the import built it.
C21_EventIdReferencesEvent ==
  \A d \in attendees :
    /\ d.eventId \in EventIds(events)
    /\ d.importedUnder # "seed" => d.eventId = d.importedUnder

\* C22: a decode callback that carries the code of the accepted scan whose
\* 3-second timeout is still pending starts no resolution attempt and leaves
\* the panel alone; a decode callback that arrives when no timeout is pending
\* starts an attempt for its trimmed code, the code just expired included.
C22_ScanCall == scanned'.tick # scanned.tick
C22_AttemptStarted(code) ==
  \E a \in Lookups :
    /\ lk[a].pc \in {"idle", "done"}
    /\ latest' = a
    /\ lk'[a].raw = code /\ lk'[a].prn = trim(code)
    /\ lk'[a].pc \in {"query", "done"}
    /\ resultState' \in {"loading", "default"}
C22_SameCodeCoalesced ==
  [][C22_ScanCall =>
       /\ (cooldownTimers > 0 /\ scanned'.code = lastScannedCode
             => /\ lk' = lk /\ resultState' = resultState
                /\ cooldownTimers' = cooldownTimers)
       /\ (cooldownTimers = 0 => C22_AttemptStarted(scanned'.code))]_vars

\* A code was scanned and accepted, its window expired, and the same code
\* was scanned and accepted again: both attempts were started by scans of
\* p1 and the timeout of the later one is pending.
C22_Witness ==
  /\ \A a \in Lookups : lk[a].raw = "p1"
  /\ cooldownTimers = 1 /\ lastScannedCode = "p1"
  /\ scanned = [tick |-> TRUE, code |-> "p1"]

\* C28: while scanCooldown is set no decode callback starts a resolution
\* attempt, whatever its code; at most one cooldown timeout is pending; and
\* when the timeout fires scanCooldown is cleared and lastScannedCode is
\* emptied.
C28_CooldownBlocksEveryScan ==
  [][/\ (C22_ScanCall /\ scanCooldown
          => lk' = lk /\ latest' = latest /\ resultState' = resultState)
     /\ cooldownTimers <= 1 /\ cooldownTimers' <= 1
     /\ (cooldownTimers' < cooldownTimers
          => ~scanCooldown' /\ lastScannedCode' = "")]_vars

\* During the cooldown of p1 a scan of p2 was ignored, and the only attempt
\* made is the one for p1.
C28_Witness ==
  /\ scanCooldown /\ lastScannedCode = "p1" /\ cooldownTimers = 1
  /\ scanned.code = "p2"
  /\ lk[1].raw = "p1" /\ lk[1].pc # "idle" /\ lk[2].pc = "idle"

\* C29: the camera does not run, and is not being started, while a page
\* other than Check-In is active or the operator is logged out, once the
\* stopScanner calls of the navigation or the logout have finished.
C29_ScannerStoppedAwayFromCheckIn ==
  (activePage # "checkin" \/ auth = "out")
    /\ (\A s \in Starts : stops[s] = 0)
    => \A s \in Starts : instances[s] \notin {"running"}

\* C23: every resolution attempt, every import run and every event deletion
\* that waits for the store eventually reaches a terminal outcome, and the
\* result panel eventually leaves its loading state, whether or not the
\* store answers.
C23_EveryOperationEnds ==
  /\ \A a \in Lookups :
       lk[a].pc \in {"query", "update"} ~> lk[a].pc = "done"
  /\ resultState = "loading" ~> resultState # "loading"
  /\ \A r \in Runs : InProgress(r) ~> ~InProgress(r)
  /\ \A d \in Deletes :
       del[d].pc \in {"query", "batch", "event", "reload"}
         ~> del[d].pc \in {"done", "failed"}

\* The part of it that the timers of withTimeout do guarantee: an import run
\* never waits for ever.
C23_ImportRunEnds == \A r \in Runs : InProgress(r) ~> ~InProgress(r)

\* C24: an import run that passed the probe never ends without its report,
\* and every row it works on is the row that the roster it passed the probe
\* with holds at that index, whatever happens to the file meanwhile.
C24_RunKeepsItsRows ==
  \A r \in Runs :
    /\ run[r].pc # "crashed"
    /\ run[r].pc \in {"query", "add"} =>
         /\ run[r].i + 1 <= Len(run[r].roster)
         /\ run[r].row = run[r].roster[run[r].i + 1]

\* C25: no import run is started while another is in progress, and the
\* store calls of the importer that are in flight (the call an invocation in
\* progress awaits, and the adds that were given up on) never number more
\* than one.
C25_RunsInProgress == {r \in Runs : InProgress(r)}
C25_OneImportOperationInFlight ==
  /\ ~overlapped
  /\ Cardinality(C25_RunsInProgress) <= 1
  /\ Cardinality(C25_RunsInProgress) + Len(pendingAdds) <= 1

\* The first half alone: two invocations in progress at once.
C25_OneRunInProgress == Cardinality(C25_RunsInProgress) <= 1

\* C26: for each row an import run issues the duplicate query once and the
\* add at most once; a step in which the awaited call of a row ends without
\* the store's success (nothing stored, nothing skipped) counts the row
\* failed and moves on to the next row.
C26_CallFailed(r) ==
  /\ run[r].pc \in {"query", "add"}
  /\ run'[r] # run[r]
  /\ run'[r].uploaded = run[r].uploaded
  /\ run'[r].skipped = run[r].skipped
  /\ ~(run[r].pc = "query" /\ run'[r].pc = "add")
C26_NoAutomaticRetry ==
  [][\A r \in Runs :
       /\ run'[r].queries <= 1 /\ run'[r].adds <= 1
       /\ C26_CallFailed(r) =>
            /\ run'[r].failed = run[r].failed + 1
            /\ run'[r].i = run[r].i + 1
            /\ attendees' = attendees]_vars

\* A run of two rows whose calls failed for both rows: both are counted
\* failed, the report is made, and nothing was stored.
C26_Witness ==
  /\ run[1].pc = "reported" /\ run[1].total = 2 /\ run[1].failed = 2
  /\ attendees = {} /\ pendingAdds = <<>>

\* C27: once an import run has reported and none of the adds it gave up on
\* is still in flight, the documents written since the page was loaded
\* number what the run reported as uploaded.
C27_Imported == {d \in attendees : d.importedUnder # "seed"}
C27_StoredEqualsUploaded ==
  (/\ run[1].pc = "reported"
   /\ \A r \in Runs : r # 1 => run[r].pc = "unused"
   /\ pendingAdds = <<>>)
    => Cardinality(C27_Imported) = run[1].uploaded

\* C30: when no resolution attempt is in progress any more, the result panel
\* shows the outcome of the attempt that was started last.
C30_PanelOf(result) ==
  CASE result = "success"  -> "success"
    [] result = "already"  -> "already"
    [] result = "notFound" -> "notFound"
    [] result = "error"    -> "notFound"
    [] result = "noEvent"  -> "default"
    [] OTHER               -> "loading"
C30_LatestAttemptDisplayed ==
  (latest # 0 /\ \A a \in Lookups : lk[a].pc \in {"idle", "done"})
    => resultState = C30_PanelOf(lk[latest].result)

\* C31: when no loadEvents call and no handleDeleteEvent invocation is in
\* progress, selectedEventId is null or the id of an event document that the
\* store holds.
C31_NoEventOperation ==
  /\ evLoad = "idle"
  /\ \A d \in Deletes : del[d].pc \in {"unused", "done", "failed"}
C31_SelectionExists ==
  C31_NoEventOperation => selectedEventId \in {Null} \cup EventIds(events)

\* The second half of it: a loadEvents call that resolves with nothing
\* selected and at least one event selects the most recently created one.
C31_Newest(e) ==
  \E ev \in events :
    ev.id = e /\ \A other \in events : other.createdAt <= ev.createdAt
C31_AutoSelectsNewest ==
  [][(allEvents' # allEvents /\ selectedEventId = Null /\ events # {})
       => C31_Newest(selectedEventId')]_vars

C33_InitOnceOnePageShown ==
  /\ \A m \in Modules :
       /\ inits[m] <= 1
       /\ signIns > 0 => inits[m] = 1
  /\ auth # "boot" => loginPageShown # mainAppShown

\* The operator has signed in a second time, after a logout, and the main
\* application is displayed.
C33_Witness ==
  /\ signIns = 2 /\ auth = "in" /\ mainAppShown /\ ~loginPageShown
  /\ \A m \in Modules : inits[m] = 1
====
